---- MODULE Spec2Model ----
(***************************************************************************)
(* Desktop Video Compress: the watcher daemon of desktop_video_compress.py *)
(* as a state machine.  main() checks the external tool and the watched    *)
(* directory, starts the observer, and on an interrupt stops it.  The      *)
(* observer delivers created/modified events to DesktopVideoHandler, whose *)
(* on_created sleeps, registers the path in `processing`, runs             *)
(* compress_video (existence checks, HandBrake, move_to_trash) and         *)
(* unregisters the path.                                                   *)
(***************************************************************************)
EXTENDS Integers, Sequences, FiniteSets, TLC

(* ------------------------------ bounds -------------------------------- *)

\* Number of threads on which the observer delivers events.
NumThreads == 2
\* Notifications the file-event subsystem queues for what the user does
\* (those for the files HandBrake writes come on top).
MaxEvents == 2
\* File sizes range over 0..MaxSize (0 is an empty file).
MaxSize == 1

Threads == 1..NumThreads
Sizes == 0..MaxSize
\* Value of fs[p] for a path that does not exist.
Absent == -1

(* --------------------------- paths and names -------------------------- *)

\* A path is its parent directory, its stem (a sequence of name pieces) and
\* its suffix.  The watch is not recursive, so the paths of all events have
\* the watched directory as parent.
Marker == "_compressed"
WatchDir == "~/Desktop"

MkPath(stem, suffix) ==
    [parent |-> WatchDir, stem |-> stem, suffix |-> suffix]

\* SUPPORTED_VIDEO_EXTENSIONS
SUPPORTED_VIDEO_EXTENSIONS ==
    {".mp4", ".m4v", ".mov", ".avi", ".mkv", ".webm", ".flv", ".wmv"}

\* str.lower() on the suffixes that occur in the model.
Lower(s) ==
    CASE s = ".MOV" -> ".mov"
      [] s = ".MP4" -> ".mp4"
      [] s = ".TXT" -> ".txt"
      [] s = ".MKV" -> ".mkv"
      [] OTHER -> s

\* file_path.suffix.lower() in SUPPORTED_VIDEO_EXTENSIONS
IsSupported(p) == Lower(p.suffix) \in SUPPORTED_VIDEO_EXTENSIONS

\* '_compressed' in input_path.stem
HasMarker(p) == \E i \in DOMAIN p.stem : p.stem[i] = Marker

\* ArtifactPath that marks the output with another suffix-side marker.
ArtifactPathOtherMarker(p) ==
    [parent |-> p.parent, stem |-> p.stem \o <<"-processed">>,
     suffix |-> p.suffix]

\* output_path = parent / f"{stem}_compressed{suffix}"
ArtifactPath(p) ==
    [parent |-> p.parent, stem |-> p.stem \o <<Marker>>, suffix |-> p.suffix]

\* The classifier of the specification: a supported suffix and no marker.
Eligible(p) == IsSupported(p) /\ ~HasMarker(p)

\* The files a user drops into the watched directory.
Clip == MkPath(<<"clip">>, ".mov")
Demo == MkPath(<<"demo">>, ".MP4")
Note == MkPath(<<"note">>, ".txt")
Folder == MkPath(<<"folder">>, ".mov")

Sources == {Clip, Demo}
\* Clip is the file under study: it is dropped with any size, receives
\* further notifications and may vanish.  Demo is a second video, dropped
\* once with a non-zero size, that shares the watcher with Clip.
Studied == {Clip}
DropSizes(p) == IF p \in Studied THEN Sizes ELSE {MaxSize}
\* Paths that name regular files whose existence the program looks at.
Files == Sources \cup {ArtifactPath(p) : p \in Sources}
              \cup {ArtifactPath(ArtifactPath(p)) : p \in Sources}
\* Creations in the watched directory that are no video files: a text file
\* and a directory.
Others == {[path |-> Note, is_directory |-> FALSE],
           [path |-> Folder, is_directory |-> TRUE]}

(* ------------------------------- state -------------------------------- *)

VARIABLES
    mainpc,      \* position of main()
    exitCode,    \* process exit status, -1 while running
    mainNotes,   \* notifications main() and the startup checks have sent
    mainLogs,    \* log lines of main() and the startup checks
    fs,          \* the watched directory: size of each file, or Absent
    dropped,     \* the paths the user has dropped so far
    extra,       \* number of notifications queued for the user's doings
    queue,       \* the observer's event queue
    processing,  \* DesktopVideoHandler.processing
    pc,          \* position of each delivery thread in its handler
    cur,         \* file_path of the handler a thread is running
    rc,          \* outcome of subprocess.run in the current attempt
    disposal,    \* outcome of move_to_trash in the current attempt
    notes,       \* notifications sent in the current attempt
    logs,        \* log lines written in the current attempt
    transcodes,  \* number of HandBrake invocations per path
    seen         \* history: what has happened to which path so far

vars == <<mainpc, exitCode, mainNotes, mainLogs, fs, dropped, extra, queue,
          processing, pc, cur, rc, disposal, notes, logs, transcodes, seen>>

mainVars == <<mainpc, exitCode, mainNotes, mainLogs>>
envVars == <<fs, dropped, extra, queue>>
attemptVars == <<rc, disposal, notes, logs>>

NoPath == MkPath(<<>>, "")

Init ==
    /\ mainpc = "start"
    /\ exitCode = -1
    /\ mainNotes = {}
    /\ mainLogs = {}
    /\ fs = [p \in Files |-> Absent]
    /\ dropped = {}
    /\ extra = 0
    /\ queue = <<>>
    /\ processing = {}
    /\ pc = [t \in Threads |-> "idle"]
    /\ cur = [t \in Threads |-> NoPath]
    /\ rc = [t \in Threads |-> "none"]
    /\ disposal = [t \in Threads |-> "none"]
    /\ notes = [t \in Threads |-> {}]
    /\ logs = [t \in Threads |-> {}]
    /\ transcodes = [p \in Files |-> 0]
    /\ seen = {}

Exists(p) == fs[p] # Absent

Event(kind, p, isdir) == [kind |-> kind, path |-> p, is_directory |-> isdir]

(* ------------------------------- main() ------------------------------- *)

\* check_handbrake_installed() and its use in main(): the tool is not found,
\* its --version run raises, exits non-zero, or exits zero.
CheckHandbrakeInstalled(found) ==
    /\ mainpc = "start"
    /\ \/ /\ found = "notfound"
          /\ mainLogs' = mainLogs \cup {"handbrake_not_found", "exiting"}
          /\ mainNotes' = mainNotes \cup {"Error"}
          /\ mainpc' = "exited" /\ exitCode' = 1
       \/ /\ found = "raises"
          /\ mainLogs' = mainLogs \cup {"handbrake_check_error", "exiting"}
          /\ mainNotes' = mainNotes \cup {"Error"}
          /\ mainpc' = "exited" /\ exitCode' = 1
       \/ /\ found = "nonzero"
          /\ mainLogs' = mainLogs \cup {"exiting"}
          /\ mainNotes' = mainNotes
          /\ mainpc' = "exited" /\ exitCode' = 1
       \/ /\ found = "ok"
          /\ mainLogs' = mainLogs \cup {"handbrake_found"}
          /\ mainNotes' = mainNotes
          /\ mainpc' = "deskcheck" /\ exitCode' = exitCode
    /\ UNCHANGED <<envVars, processing, pc, cur, attemptVars, transcodes,
                   seen>>

\* main() after the tool check: check_trash_permissions() (a warning only,
\* main() goes on either way), the Desktop path check, then the observer is
\* scheduled and started.
StartWatching(desktopExists) ==
    /\ mainpc = "deskcheck"
    /\ IF desktopExists
         THEN /\ mainLogs' = mainLogs \cup {"watching"}
              /\ mainNotes' = mainNotes \cup {"Watching"}
              /\ mainpc' = "watching"
              /\ exitCode' = exitCode
         ELSE /\ mainLogs' = mainLogs \cup {"desktop_not_found"}
              /\ mainNotes' = mainNotes
              /\ mainpc' = "exited"
              /\ exitCode' = 1
    /\ UNCHANGED <<envVars, processing, pc, cur, attemptVars, transcodes,
                   seen>>

\* KeyboardInterrupt in the wait loop: log, observer.stop().
Interrupt ==
    /\ mainpc = "watching"
    /\ mainLogs' = mainLogs \cup {"stopping"}
    /\ mainpc' = "stopped"
    /\ UNCHANGED <<exitCode, mainNotes, envVars, processing, pc, cur,
                   attemptVars, transcodes, seen>>

\* ShutdownNotify that sends no notification.
ShutdownSilent ==
    /\ mainpc = "stopped"
    /\ mainpc' = "notified"
    /\ UNCHANGED <<exitCode, mainNotes, mainLogs, envVars, processing, pc,
                   cur, attemptVars, transcodes, seen>>

\* send_notification("Stopped watching Desktop") in the except block.
ShutdownNotify ==
    /\ mainpc = "stopped"
    /\ mainNotes' = mainNotes \cup {"Stopped"}
    /\ mainpc' = "notified"
    /\ UNCHANGED <<exitCode, mainLogs, envVars, processing, pc, cur,
                   attemptVars, transcodes, seen>>

\* observer.join(): returns once the delivery threads have finished the
\* handler they were running; main() then returns.
Join ==
    /\ mainpc = "notified"
    /\ \A t \in Threads : pc[t] = "idle"
    /\ mainpc' = "exited"
    /\ exitCode' = 0
    /\ UNCHANGED <<mainNotes, mainLogs, envVars, processing, pc, cur,
                   attemptVars, transcodes, seen>>

(* --------------------------- the environment -------------------------- *)

ObserverRunning == mainpc = "watching"
ProcessAlive == mainpc \in {"watching", "stopped", "notified"}

\* A user drops file p (once per path): the file appears and its creation
\* notification is queued.
EnvDrop(p, size) ==
    /\ ObserverRunning
    /\ extra < MaxEvents
    /\ p \in Sources \ dropped
    /\ size \in DropSizes(p)
    /\ dropped' = dropped \cup {p}
    /\ extra' = extra + 1
    /\ fs' = [fs EXCEPT ![p] = size]
    /\ queue' = Append(queue, Event("created", p, FALSE))
    /\ UNCHANGED <<mainVars, processing, pc, cur, attemptVars,
                   transcodes, seen>>

\* The file-event subsystem delivers a further creation notification for a
\* path that was dropped.
EnvDuplicate(p) ==
    /\ ObserverRunning
    /\ extra < MaxEvents
    /\ p \in dropped
    /\ extra' = extra + 1
    /\ queue' = Append(queue, Event("created", p, FALSE))
    /\ UNCHANGED <<mainVars, fs, dropped, processing, pc, cur, attemptVars,
                   transcodes, seen>>

\* A modification notification for a path that was dropped.
EnvModify(p) ==
    /\ ObserverRunning
    /\ extra < MaxEvents
    /\ p \in dropped
    /\ extra' = extra + 1
    /\ queue' = Append(queue, Event("modified", p, FALSE))
    /\ UNCHANGED <<mainVars, fs, dropped, processing, pc, cur, attemptVars,
                   transcodes, seen>>

\* Something that is no video file is created in the watched directory.
EnvOther(o) ==
    /\ ObserverRunning
    /\ extra < MaxEvents
    /\ extra' = extra + 1
    /\ queue' = Append(queue, Event("created", o.path, o.is_directory))
    /\ UNCHANGED <<mainVars, fs, dropped, processing, pc, cur, attemptVars,
                   transcodes, seen>>

\* A dropped source file vanishes (the user moves or deletes it).
EnvVanish(p) ==
    /\ ProcessAlive
    /\ p \in Studied
    /\ Exists(p)
    /\ fs' = [fs EXCEPT ![p] = Absent]
    /\ UNCHANGED <<mainVars, dropped, extra, queue, processing, pc, cur,
                   attemptVars, transcodes, seen>>

(* ----------------------- DesktopVideoHandler --------------------------- *)

\* CreatedDiscarded without the is_directory check.
CreatedDiscardedNoDirCheck(e, proc) ==
    \/ ~IsSupported(e.path)
    \/ e.path \in proc

\* The early returns of on_created before the settle delay: a directory, an
\* unsupported suffix, or a path that is in `processing` at this moment.
CreatedDiscarded(e, proc) ==
    \/ e.is_directory
    \/ ~IsSupported(e.path)
    \/ e.path \in proc

\* The observer hands the next event to a free delivery thread; free threads
\* are interchangeable, so the lowest-numbered one takes it.
Dispatches(t) ==
    /\ ObserverRunning
    /\ pc[t] = "idle"
    /\ \A u \in Threads : pc[u] = "idle" => t <= u

\* on_created up to time.sleep(2): thread t takes the next event, a creation,
\* and either returns at once or starts the settle delay.
OnCreated(t) ==
    /\ Dispatches(t)
    /\ queue # <<>>
    /\ Head(queue).kind = "created"
    /\ queue' = Tail(queue)
    /\ IF CreatedDiscarded(Head(queue), processing)
         THEN UNCHANGED <<pc, cur>>
         ELSE /\ pc' = [pc EXCEPT ![t] = "settle"]
              /\ cur' = [cur EXCEPT ![t] = Head(queue).path]
    /\ UNCHANGED <<mainVars, fs, dropped, extra, processing, attemptVars,
                   transcodes, seen>>

\* What `seen` records of a handled modification event e: that it came for
\* a path that was in `processing`.
ModifiedMark(e, proc) ==
    IF e.path \in proc THEN {[what |-> "modified", path |-> e.path]} ELSE {}

\* OnModified that treats the modification as a creation.
OnModifiedLikeCreated(t) ==
    /\ Dispatches(t)
    /\ queue # <<>>
    /\ Head(queue).kind = "modified"
    /\ queue' = Tail(queue)
    /\ seen' = seen \cup ModifiedMark(Head(queue), processing)
    /\ IF CreatedDiscarded(Head(queue), processing)
           \/ HasMarker(Head(queue).path)
         THEN UNCHANGED <<pc, cur>>
         ELSE /\ pc' = [pc EXCEPT ![t] = "settle"]
              /\ cur' = [cur EXCEPT ![t] = Head(queue).path]
    /\ UNCHANGED <<mainVars, fs, dropped, extra, processing, attemptVars,
                   transcodes>>

\* on_modified: every branch returns without doing anything.
OnModified(t) ==
    /\ Dispatches(t)
    /\ queue # <<>>
    /\ Head(queue).kind = "modified"
    /\ queue' = Tail(queue)
    /\ seen' = seen \cup ModifiedMark(Head(queue), processing)
    /\ UNCHANGED <<mainVars, fs, dropped, extra, processing, pc, cur,
                   attemptVars, transcodes>>

\* Registered that forgets the add.
RegisteredNothing(proc, p) == proc

\* on_created after time.sleep(2): self.processing.add(str(file_path)).
Registered(proc, p) == proc \cup {p}

Settle(t) ==
    /\ pc[t] = "settle"
    /\ processing' = Registered(processing, cur[t])
    /\ pc' = [pc EXCEPT ![t] = "pipeline"]
    /\ UNCHANGED <<mainVars, envVars, cur, attemptVars, transcodes, seen>>

\* Released that forgets the discard.
ReleasedNothing(proc, p) == proc

\* The `finally` of on_created: self.processing.discard(str(file_path)); the
\* handler returns and the thread is free for the next event.  An exception
\* that left compress_video goes on out of on_created, into the observer's
\* delivery thread, which it ends.
Released(proc, p) == proc \ {p}

\* What `seen` records of the attempt that thread t ends: that a HandBrake
\* run on the file under study was ended by the timeout.
EndMark(t) ==
    IF rc[t] = "timeout" /\ cur[t] \in Studied
      THEN {[what |-> "timeout", path |-> cur[t]]} ELSE {}

\* Finally that keeps a path registered whose HandBrake run timed out.
FinallyKeepsTimedOut(t) ==
    /\ pc[t] = "finally"
    /\ processing' = IF rc[t] = "timeout" THEN processing
                                          ELSE Released(processing, cur[t])
    /\ pc' = [pc EXCEPT ![t] = "idle"]
    /\ cur' = [cur EXCEPT ![t] = NoPath]
    /\ rc' = [rc EXCEPT ![t] = "none"]
    /\ disposal' = [disposal EXCEPT ![t] = "none"]
    /\ notes' = [notes EXCEPT ![t] = {}]
    /\ logs' = [logs EXCEPT ![t] = {}]
    /\ seen' = seen \cup EndMark(t)
    /\ UNCHANGED <<mainVars, envVars, transcodes>>

\* Finally that unregisters the path only after exit status zero.
FinallyOnSuccessOnly(t) ==
    /\ pc[t] = "finally"
    /\ processing' = IF rc[t] = "zero" THEN Released(processing, cur[t])
                                       ELSE processing
    /\ pc' = [pc EXCEPT ![t] = "idle"]
    /\ cur' = [cur EXCEPT ![t] = NoPath]
    /\ rc' = [rc EXCEPT ![t] = "none"]
    /\ disposal' = [disposal EXCEPT ![t] = "none"]
    /\ notes' = [notes EXCEPT ![t] = {}]
    /\ logs' = [logs EXCEPT ![t] = {}]
    /\ seen' = seen \cup EndMark(t)
    /\ UNCHANGED <<mainVars, envVars, transcodes>>

Finally(t) ==
    /\ pc[t] \in {"finally", "escaping"}
    /\ processing' = Released(processing, cur[t])
    /\ pc' = [pc EXCEPT ![t] = IF pc[t] = "escaping" THEN "dead" ELSE "idle"]
    /\ cur' = [cur EXCEPT ![t] = NoPath]
    /\ rc' = [rc EXCEPT ![t] = "none"]
    /\ disposal' = [disposal EXCEPT ![t] = "none"]
    /\ notes' = [notes EXCEPT ![t] = {}]
    /\ logs' = [logs EXCEPT ![t] = {}]
    /\ seen' = seen \cup EndMark(t)
    /\ UNCHANGED <<mainVars, envVars, transcodes>>

(* --------------------------- compress_video --------------------------- *)

\* PipelineDecision without the check that the output exists.
PipelineDecisionOverwrite(f, p) ==
    IF f[p] = Absent THEN "file_not_found"
    ELSE IF HasMarker(p) THEN "skip_marker"
    ELSE "run"

\* PipelineDecision without the marker check.
PipelineDecisionNoMarker(f, p) ==
    IF f[p] = Absent THEN "file_not_found"
    ELSE IF f[ArtifactPath(p)] # Absent THEN "already_exists"
    ELSE "run"

\* The checks at the head of compress_video, in the code's order: the input
\* is missing, the output exists, the stem carries the marker; else run.
PipelineDecision(f, p) ==
    IF f[p] = Absent THEN "file_not_found"
    ELSE IF f[ArtifactPath(p)] # Absent THEN "already_exists"
    ELSE IF HasMarker(p) THEN "skip_marker"
    ELSE "run"

\* cmd: the fixed HandBrakeCLI invocation for input p.
HandbrakeCmd(p) ==
    [input |-> p, output |-> ArtifactPath(p),
     preset |-> "Fast 2160p60 4K HEVC", optimize |-> TRUE,
     encoder |-> "x265", quality |-> "22"]

\* The preset mapping the test suite expects the program to export.
OUTPUT_FORMAT_PRESETS ==
    [fmt \in {"1080P", "4K"} |->
        IF fmt = "1080P" THEN "Fast 1080p30" ELSE "Fast 2160p60"]

\* compress_video up to subprocess.run: the three skips, or the "starting"
\* log line and notification and the start of HandBrake.
CompressVideo(t) ==
    /\ pc[t] = "pipeline"
    /\ LET d == PipelineDecision(fs, cur[t]) IN
         IF d = "run"
           THEN /\ logs' = [logs EXCEPT ![t] = @ \cup {"starting"}]
                /\ notes' = [notes EXCEPT ![t] = @ \cup {"Start"}]
                /\ transcodes' = [transcodes EXCEPT ![cur[t]] = @ + 1]
                /\ pc' = [pc EXCEPT ![t] = "running"]
           ELSE /\ logs' = [logs EXCEPT ![t] = @ \cup {d}]
                /\ pc' = [pc EXCEPT ![t] = "finally"]
                /\ UNCHANGED <<notes, transcodes>>
    /\ UNCHANGED <<mainVars, envVars, processing, cur, rc, disposal, seen>>

\* StatResult that looks at the input only.
StatResultInputOnly(f, p) ==
    IF f[p] = Absent THEN "FileNotFoundError"
    ELSE IF f[p] = 0 THEN "ZeroDivisionError"
    ELSE "ok"

\* The statistics computed after exit status zero: stat() of the input and
\* of the output, and the division by the original size.
StatResult(f, p) ==
    IF f[p] = Absent \/ f[ArtifactPath(p)] = Absent THEN "FileNotFoundError"
    ELSE IF f[p] = 0 THEN "ZeroDivisionError"
    ELSE "ok"

\* AfterTool with the exit status not looked at before the disposal.
AfterToolIgnoringExit(outcome, f, p) ==
    IF outcome \in {"zero", "nonzero"} /\ f[p] # Absent
      THEN "trash" ELSE "finally"

\* What follows subprocess.run: "trash" when disposal is to be attempted.
AfterTool(outcome, f, p) ==
    IF outcome = "zero" /\ StatResult(f, p) = "ok" THEN "trash" ELSE "finally"

\* The notification sent after subprocess.run.
ToolNote(outcome, f, p) ==
    IF outcome = "zero" /\ StatResult(f, p) = "ok" THEN "Complete" ELSE "Error"

\* The log line written after subprocess.run.
ToolLog(outcome, f, p) ==
    CASE outcome = "zero" /\ StatResult(f, p) = "ok" -> "complete"
      [] outcome = "zero" /\ StatResult(f, p) # "ok" -> "error"
      [] outcome = "nonzero" -> "failed"
      [] outcome = "timeout" -> "timed_out"
      [] OTHER -> "error"

\* The exception raised inside the try block of compress_video, if any: by
\* subprocess.run, or by the statistics after exit status zero.
Raised(outcome, f, p) ==
    CASE outcome = "timeout" -> "TimeoutExpired"
      [] outcome = "raised" -> "Exception"
      [] outcome = "zero" /\ StatResult(f, p) # "ok" -> "Exception"
      [] OTHER -> "none"

\* Escapes with no `except Exception` clause.
EscapesButTimeout(exc) == exc \notin {"none", "TimeoutExpired"}

\* Whether exception exc leaves compress_video: its except clauses catch
\* subprocess.TimeoutExpired and Exception.
Escapes(exc) == exc \notin {"none", "TimeoutExpired", "Exception"}

\* subprocess.run returns or raises, and compress_video handles the result.
\* HandBrake is opaque: it exits zero or non-zero, is killed at the timeout,
\* or cannot be started ("raised"); it may or may not have written the
\* output file, whose creation the observer notices.  The size of the
\* output only shows in the text of the completion message, so every
\* output written has the one size MaxSize.
ToolReturns(t, outcome, wrote) ==
    /\ pc[t] = "running"
    /\ outcome = "raised" => ~wrote
    /\ LET p == cur[t]
           art == ArtifactPath(p)
           fs1 == IF wrote THEN [fs EXCEPT ![art] = MaxSize] ELSE fs
       IN /\ fs' = fs1
          /\ queue' = IF wrote /\ ~Exists(art) /\ ObserverRunning
                        THEN Append(queue, Event("created", art, FALSE))
                        ELSE queue
          /\ rc' = [rc EXCEPT ![t] = outcome]
          /\ IF Escapes(Raised(outcome, fs1, p))
               THEN /\ pc' = [pc EXCEPT ![t] = "escaping"]
                    /\ UNCHANGED <<logs, notes>>
               ELSE /\ logs' = [logs EXCEPT ![t] =
                                  @ \cup {ToolLog(outcome, fs1, p)}]
                    /\ notes' = [notes EXCEPT ![t] =
                                   @ \cup {ToolNote(outcome, fs1, p)}]
                    /\ pc' = [pc EXCEPT ![t] = AfterTool(outcome, fs1, p)]
    /\ UNCHANGED <<mainVars, dropped, extra, processing, cur, disposal,
                   transcodes, seen>>

(* ---------------------------- move_to_trash --------------------------- *)

\* send2trash either succeeds or raises; an OSError is told apart by its text.
TrashResults ==
    {"ok", "Operation not permitted", "Insufficient access", "OSError",
     "Exception"}

\* IsPermissionError that knows one of the two texts only.
IsPermissionErrorOneText(res) == res = "Operation not permitted"

\* "Operation not permitted" in str(e) or "Insufficient access" in str(e)
IsPermissionError(res) ==
    res \in {"Operation not permitted", "Insufficient access"}

\* DisposalOutcome without the check that the file exists: send2trash is
\* called on the missing file and raises.
DisposalOutcomeNoExistsCheck(f, p, res) ==
    IF res = "ok" THEN (IF f[p] = Absent THEN "OtherError" ELSE "Disposed")
    ELSE IF IsPermissionError(res) THEN "PermissionDenied"
    ELSE "OtherError"

\* The DisposalOutcome of move_to_trash on file p with send2trash result res.
DisposalOutcome(f, p, res) ==
    IF f[p] = Absent THEN "NotFound"
    ELSE IF res = "ok" THEN "Disposed"
    ELSE IF IsPermissionError(res) THEN "PermissionDenied"
    ELSE "OtherError"

\* move_to_trash(input_path) and the log line of compress_video after it.
MoveToTrash(t, res) ==
    /\ pc[t] = "trash"
    /\ LET p == cur[t]
           d == DisposalOutcome(fs, p, res)
       IN /\ disposal' = [disposal EXCEPT ![t] = d]
          /\ fs' = IF d = "Disposed" THEN [fs EXCEPT ![p] = Absent] ELSE fs
          /\ notes' = [notes EXCEPT ![t] =
                         IF d = "PermissionDenied"
                           THEN @ \cup {"PermissionError"} ELSE @]
          /\ logs' = [logs EXCEPT ![t] = @ \cup
                        (CASE d = "NotFound" -> {"trash_not_found", "trash_failed"}
                           [] d = "Disposed" -> {"trash_moved", "original_trashed"}
                           [] d = "PermissionDenied" ->
                                {"trash_permission", "trash_failed"}
                           [] OTHER -> {"trash_error", "trash_failed"})]
    /\ pc' = [pc EXCEPT ![t] = "finally"]
    /\ UNCHANGED <<mainVars, dropped, extra, queue, processing, cur, rc,
                   transcodes, seen>>

(* --------------------------- specification ---------------------------- *)

ToolOutcomes == {"zero", "nonzero", "timeout", "raised"}

Next ==
    \/ \E found \in {"notfound", "raises", "nonzero", "ok"} :
         CheckHandbrakeInstalled(found)
    \/ \E b \in BOOLEAN : StartWatching(b)
    \/ Interrupt
    \/ ShutdownNotify
    \/ Join
    \/ \E p \in Sources, size \in Sizes : EnvDrop(p, size)
    \/ \E p \in Studied : EnvDuplicate(p)
    \/ \E p \in Studied : EnvModify(p)
    \/ \E o \in Others : EnvOther(o)
    \/ \E p \in Studied : EnvVanish(p)
    \/ \E t \in Threads : OnCreated(t)
    \/ \E t \in Threads : OnModified(t)
    \/ \E t \in Threads : Settle(t)
    \/ \E t \in Threads : CompressVideo(t)
    \/ \E t \in Threads, outcome \in ToolOutcomes, wrote \in BOOLEAN :
         ToolReturns(t, outcome, wrote)
    \/ \E t \in Threads, res \in TrashResults : MoveToTrash(t, res)
    \/ \E t \in Threads : Finally(t)

Spec == Init /\ [][Next]_vars

\* A delivery thread that has entered on_created runs it to its end: the
\* sleep ends, compress_video makes its checks, subprocess.run returns or
\* is ended by its timeout, move_to_trash returns, the `finally` runs.
HandlerProgress(t) ==
    /\ WF_vars(Settle(t))
    /\ WF_vars(CompressVideo(t))
    /\ WF_vars(\E outcome \in ToolOutcomes, wrote \in BOOLEAN :
                  ToolReturns(t, outcome, wrote))
    /\ WF_vars(\E res \in TrashResults : MoveToTrash(t, res))
    /\ WF_vars(Finally(t))

FairSpec == Spec /\ \A t \in Threads : HandlerProgress(t)

(* ------------------- the naming of outputs, by itself ------------------ *)

\* Longest stem, in name pieces, of the file names tried below.
MaxStem == 2

NamePieces == {"clip", Marker}
NameSuffixes == {".mov", ".MKV", ".txt"}
RECURSIVE Stems(_)
Stems(n) ==
    IF n = 0 THEN {<<>>}
    ELSE {s \o <<x>> : s \in Stems(n - 1), x \in NamePieces}
NamePaths ==
    {MkPath(s, x) : s \in UNION {Stems(n) : n \in 1..MaxStem},
                    x \in NameSuffixes}
\* The files compress_video looks at or writes when a file p is handled and
\* then the file written for it.
NameFiles(p) == {p, ArtifactPath(p), ArtifactPath(ArtifactPath(p))}

\* The watcher is running and one file with an arbitrary name has just
\* appeared in the watched directory, an output for it present or not.
NamingInit ==
    /\ mainpc = "watching"
    /\ exitCode = -1
    /\ mainNotes = {"Watching"}
    /\ mainLogs = {"handbrake_found", "watching"}
    /\ \E p \in NamePaths :
         /\ \E size \in Sizes, out \in {Absent, MaxSize} :
              fs = [q \in NameFiles(p) |->
                      IF q = p THEN size
                      ELSE IF q = ArtifactPath(p) THEN out ELSE Absent]
         /\ transcodes = [q \in NameFiles(p) |-> 0]
         /\ queue = <<Event("created", p, FALSE)>>
    /\ dropped = {}
    /\ extra = 1
    /\ processing = {}
    /\ pc = [t \in Threads |-> "idle"]
    /\ cur = [t \in Threads |-> NoPath]
    /\ rc = [t \in Threads |-> "none"]
    /\ disposal = [t \in Threads |-> "none"]
    /\ notes = [t \in Threads |-> {}]
    /\ logs = [t \in Threads |-> {}]
    /\ seen = {}

\* The handler alone: the file is handled, and so is what is written for it.
NamingNext ==
    \/ \E t \in Threads : OnCreated(t)
    \/ \E t \in Threads : Settle(t)
    \/ \E t \in Threads : CompressVideo(t)
    \/ \E t \in Threads, outcome \in ToolOutcomes, wrote \in BOOLEAN :
         ToolReturns(t, outcome, wrote)
    \/ \E t \in Threads, res \in TrashResults : MoveToTrash(t, res)
    \/ \E t \in Threads : Finally(t)

NamingSpec == NamingInit /\ [][NamingNext]_vars

(* ------------------------------ properties ---------------------------- *)

\* The threads that hold path p between self.processing.add and
\* self.processing.discard (the Registered/Processing state).
InFlight == {"pipeline", "running", "trash", "finally"}
HandlersOf(p) == {t \in Threads : pc[t] \in InFlight /\ cur[t] = p}

\* C1: for an eligible path that was dropped once, however many creation
\* notifications are delivered for it and on whichever threads, HandBrake is
\* invoked for it exactly once in total: the count of invocations, which
\* CompressVideo keeps per path, never exceeds one.
C1_ExactlyOneTranscode ==
    \A p \in Sources : Eligible(p) => transcodes[p] <= 1

\* C2: at any time at most one handler is between inserting p into the
\* registry and removing it.
C2_AtMostOneRegistered ==
    \A p \in Files : Cardinality(HandlersOf(p)) <= 1

\* C3: move_to_trash is reached only in an attempt whose HandBrake run
\* returned exit status zero, and a source file disappears only through the
\* environment or through the move to trash of such an attempt.
C3_DisposalOnlyAfterZeroExit ==
    /\ [](\A t \in Threads :
            (pc[t] = "trash" \/ disposal[t] # "none") => rc[t] = "zero")
    /\ [][\A p \in Sources :
            (Exists(p) /\ fs'[p] = Absent) =>
               \/ EnvVanish(p)
               \/ \E t \in Threads :
                    /\ cur[t] = p /\ pc[t] = "trash" /\ rc[t] = "zero"
                    /\ disposal'[t] = "Disposed"]_vars

\* C3 witness: an attempt whose tool run failed has ended without disposal
\* and its source is still in place.
C3_Witness ==
    \E t \in Threads :
        /\ pc[t] = "finally" /\ rc[t] \in {"nonzero", "timeout", "raised"}
        /\ disposal[t] = "none" /\ Exists(cur[t])

\* C4: an attempt whose HandBrake run returned exit status zero, with the
\* source and the artifact on disk, is a Success: "Complete" is notified, no
\* "Error" is notified, and the attempt goes on to the disposal.
C4_ZeroExitIsSuccess ==
    \A t \in Threads :
        (rc[t] = "zero" /\ Exists(cur[t]) /\ Exists(ArtifactPath(cur[t]))) =>
            /\ "Complete" \in notes[t]
            /\ "Error" \notin notes[t]
            /\ pc[t] = "trash" \/ (pc[t] = "finally" /\ disposal[t] # "none")

\* C5: when the pipeline runs on p while the artifact of p exists, it starts
\* no transcode, attempts no disposal, sends nothing and leaves every file as
\* it is; this holds of every such run, the first and all further ones.
C5_ExistingArtifactIsNull ==
    [][\A t \in Threads :
         (pc[t] = "pipeline" /\ pc'[t] # "pipeline"
            /\ Exists(ArtifactPath(cur[t]))) =>
              /\ pc'[t] = "finally"
              /\ transcodes' = transcodes
              /\ fs' = fs
              /\ rc'[t] = "none" /\ disposal'[t] = "none"
              /\ notes'[t] = notes[t]]_vars

\* C5 witness: a run of the pipeline on a source whose artifact exists has
\* just ended as a skip, both files on disk.
C5_Witness ==
    \E t \in Threads :
        /\ pc[t] = "finally" /\ "already_exists" \in logs[t]
        /\ Exists(cur[t]) /\ Exists(ArtifactPath(cur[t]))
        /\ transcodes[cur[t]] >= 1

\* C6: the pipeline, run on an existing file with no artifact, starts
\* HandBrake exactly when the path is Eligible; HandBrake is never run on a
\* path that is not Eligible, in particular never on an artifact; and a
\* creation notification for an unsupported suffix starts nothing.
C6_TranscodeIffEligible ==
    /\ [](\A t \in Threads : pc[t] \in {"running", "trash"} => Eligible(cur[t]))
    /\ [](\A p \in Files : transcodes[p] > 0 => Eligible(p))
    /\ [][\A t \in Threads :
            (pc[t] = "pipeline" /\ pc'[t] # "pipeline"
               /\ Exists(cur[t]) /\ ~Exists(ArtifactPath(cur[t]))) =>
                 (pc'[t] = "running" <=> Eligible(cur[t]))]_vars
    /\ [][(queue # <<>> /\ queue' = Tail(queue)
             /\ Head(queue).kind = "created"
             /\ ~IsSupported(Head(queue).path)) =>
                (pc' = pc /\ processing' = processing
                   /\ transcodes' = transcodes)]_vars

\* C6 witness: the creation notification of an artifact that a transcode
\* wrote has been handled and ended as a skip.
C6_Witness ==
    \E t \in Threads, p \in Sources :
        /\ cur[t] = ArtifactPath(p) /\ transcodes[p] >= 1
        /\ pc[t] = "finally" /\ "skip_marker" \in logs[t]
        /\ transcodes[ArtifactPath(p)] = 0

\* The texts of a permission-class failure of the move to trash.
PermissionClass == {"Operation not permitted", "Insufficient access"}

\* C7: when the move to trash of an existing source fails with a
\* permission-class error, no file changes (source and artifact remain), the
\* permission notification is sent and the generic error notification is
\* not, the handler goes on to release the path, and the watcher is left
\* running with the thread free for the next event.
C7_PermissionDeniedKeepsFiles ==
    /\ [][\A t \in Threads, res \in PermissionClass :
            (MoveToTrash(t, res) /\ Exists(cur[t])) =>
               /\ fs' = fs
               /\ Exists(ArtifactPath(cur[t]))
               /\ disposal'[t] = "PermissionDenied"
               /\ "PermissionError" \in notes'[t]
               /\ "Error" \notin notes'[t]
               /\ pc'[t] = "finally"]_vars
    /\ [][\A t \in Threads :
            (pc[t] = "finally" /\ pc'[t] # "finally") =>
               /\ pc'[t] = "idle"
               /\ cur[t] \notin processing'
               /\ mainpc' = mainpc /\ queue' = queue]_vars

\* C7 witness: the disposal of one source was refused for lack of permission
\* while another path is being handled.
C7_Witness ==
    \E t, u \in Threads :
        /\ pc[t] = "finally" /\ disposal[t] = "PermissionDenied"
        /\ "PermissionError" \in notes[t]
        /\ Exists(cur[t]) /\ Exists(ArtifactPath(cur[t]))
        /\ pc[u] = "running" /\ cur[u] # cur[t]

\* C8 as stated: each of the four recoverable failures is notified to the
\* user.
C8_AllFourNotified ==
    \A t \in Threads :
        (pc[t] = "finally"
           /\ logs[t] \cap {"file_not_found", "already_exists", "failed",
                            "timed_out"} # {}) => notes[t] # {}

\* C8 amended: a tool failure and a timeout are logged and notified as an
\* error; a vanished source and an existing artifact are logged and nothing
\* is notified; every handling ends with the path out of the registry.
C8_RecoverableFailures ==
    /\ [](\A t \in Threads :
            /\ rc[t] = "nonzero" => ("failed" \in logs[t] /\ "Error" \in notes[t])
            /\ rc[t] = "timeout" =>
                 ("timed_out" \in logs[t] /\ "Error" \in notes[t])
            /\ (logs[t] \cap {"file_not_found", "already_exists"} # {}) =>
                 (notes[t] = {} /\ pc[t] = "finally"))
    /\ [][\A t \in Threads :
            (pc[t] = "pipeline" /\ pc'[t] # "pipeline") =>
               /\ ~Exists(cur[t]) => "file_not_found" \in logs'[t]
               /\ (Exists(cur[t]) /\ Exists(ArtifactPath(cur[t]))) =>
                    "already_exists" \in logs'[t]]_vars
    /\ [][\A t \in Threads :
            (pc[t] = "finally" /\ pc'[t] # "finally") =>
               (pc'[t] = "idle" /\ cur[t] \notin processing')]_vars

\* C8 witness: one handling has ended in a timeout and another has found its
\* source vanished.
C8_Witness ==
    \E t, u \in Threads :
        /\ pc[t] = "finally" /\ rc[t] = "timeout"
        /\ pc[u] = "finally" /\ "file_not_found" \in logs[u]

\* C9: a start that ends with exit status 1 has logged an error, has sent a
\* notification, and has never started the observer.
C9_StartupFatalNotifies ==
    exitCode = 1 =>
        /\ mainLogs \cap {"handbrake_not_found", "handbrake_check_error",
                          "desktop_not_found", "exiting"} # {}
        /\ "Error" \in mainNotes
        /\ "Watching" \notin mainNotes

\* C10 as stated: the shutdown notification is emitted only once
\* observer.join() has returned.
C10_NotifyAfterJoin ==
    "Stopped" \in mainNotes => (mainpc = "exited" /\ exitCode = 0)

\* C10 amended: the observer is stopped, then the shutdown notification is
\* emitted, then observer.join() returns, by when every handler has ended.
C10_StopNotifyJoin ==
    /\ "Stopped" \in mainNotes =>
          ("stopping" \in mainLogs /\ mainpc \in {"notified", "exited"})
    /\ (mainpc = "exited" /\ exitCode = 0) =>
          ("Stopped" \in mainNotes /\ \A t \in Threads : pc[t] = "idle")

\* C10 witness: the shutdown notification is out while a handler is still
\* running HandBrake.
C10_Witness ==
    /\ mainpc = "notified" /\ "Stopped" \in mainNotes
    /\ \E t \in Threads : pc[t] = "running"

\* C11: the preset of every HandBrake invocation is the one the preset
\* mapping gives for the configured output format, which is one of the
\* mapping's keys.
C11_PresetFromMapping ==
    \A t \in Threads :
        pc[t] = "running" =>
            \E fmt \in DOMAIN OUTPUT_FORMAT_PRESETS :
                HandbrakeCmd(cur[t]).preset = OUTPUT_FORMAT_PRESETS[fmt]

\* C12: the output path of every path p has the parent and the suffix of
\* p and the stem of p followed by the marker; it is never Eligible, and
\* handling it never invokes HandBrake.
C12_ArtifactNaming ==
    /\ \A p \in DOMAIN fs :
         LET a == ArtifactPath(p) IN
           /\ a.parent = p.parent
           /\ a.suffix = p.suffix
           /\ a.stem = p.stem \o <<Marker>>
           /\ ~Eligible(a)
    /\ \A a \in DOMAIN transcodes :
         (\E p \in DOMAIN fs : a = ArtifactPath(p)) => transcodes[a] = 0

\* The file written for a supported, unmarked file was itself handled: its
\* creation reached compress_video, which skipped it for its marker.
C12_Witness ==
    \E t \in Threads, p \in DOMAIN fs :
        /\ Eligible(p)
        /\ transcodes[p] = 1
        /\ cur[t] = ArtifactPath(p)
        /\ pc[t] = "finally"
        /\ "skip_marker" \in logs[t]

\* C13: a path that is in the registry is eventually out of it again,
\* whichever way its handling ends, given that HandBrake returns or is timed
\* out; and whenever no handler is between its insertion and its removal,
\* the registry is empty.
C13_EventuallyReleased ==
    /\ \A p \in Files : (p \in processing) ~> (p \notin processing)
    /\ [](  (\A t \in Threads : pc[t] \notin InFlight) => processing = {}  )

\* A handling of Clip that ran HandBrake and left no output is over, and the
\* registry is empty again.
C13_Witness ==
    /\ transcodes[Clip] = 1
    /\ ~Exists(ArtifactPath(Clip))
    /\ \A t \in Threads : pc[t] = "idle"
    /\ processing = {}

\* C14: while an attempt for path p is under way (compress_video has been
\* entered for p and has not returned), p is in the registry: no other
\* handler removes it before the attempt is over.
C14_RegisteredWhileUnderWay ==
    \A t \in Threads :
        pc[t] \in {"pipeline", "running", "trash"} => cur[t] \in processing

\* A handler takes the notification of the given kind for path p that is at
\* the head of the observer's queue.
Handles(kind, p) ==
    /\ queue # <<>>
    /\ Head(queue).kind = kind
    /\ Head(queue).path = p
    /\ queue' = Tail(queue)

TimedOut(p) == [what |-> "timeout", path |-> p] \in seen

\* The handling of a notification starts an attempt for p.
StartsAttempt(p) ==
    \E t \in Threads : pc[t] = "idle" /\ pc'[t] = "settle" /\ cur'[t] = p

C16_NotFoundIsQuiet ==
    /\ [][\A t \in Threads :
            (pc[t] = "trash" /\ pc'[t] = "finally" /\ ~Exists(cur[t]))
               => /\ disposal'[t] = "NotFound"
                  /\ notes'[t] = notes[t]
                  /\ fs' = fs]_vars
    /\ [](\A t \in Threads :
            disposal[t] = "NotFound"
               => /\ rc[t] = "zero"
                  /\ notes[t] = {"Start", "Complete"}
                  /\ Exists(ArtifactPath(cur[t])))

\* An attempt whose source vanished between the statistics and the disposal
\* has ended with NotFound.
C16_Witness ==
    \E t \in Threads :
        /\ pc[t] = "finally"
        /\ disposal[t] = "NotFound"
        /\ ~Exists(cur[t])

\* A handler takes the notification at the head of the queue, which is of
\* the given kind.
Takes(kind) ==
    /\ queue # <<>>
    /\ Head(queue).kind = kind
    /\ queue' = Tail(queue)

\* The step leaves every handler where it is and changes neither the
\* registry nor the count of HandBrake runs nor the notifications sent.
NothingStarted ==
    /\ pc' = pc /\ cur' = cur
    /\ processing' = processing
    /\ transcodes' = transcodes
    /\ notes' = notes /\ mainNotes' = mainNotes

\* C17: a creation notification for a directory or for a path that is not
\* Eligible (unsupported suffix, or marker in the stem) is discarded at
\* once: no settle delay, no change of the registry, no HandBrake run, no
\* notification; so only Eligible paths are ever handled or registered.
C17_NonEligibleDiscarded ==
    /\ [][(/\ Takes("created")
            /\ (Head(queue).is_directory \/ ~Eligible(Head(queue).path)))
               => NothingStarted]_vars
    /\ [](\A p \in processing : Eligible(p))

\* C17, amended: a creation notification for a directory or for a path with
\* an unsupported suffix is discarded at once.  One for a path with a
\* supported suffix and the marker in its stem goes through the settle
\* delay and the registry like any other, and is skipped in compress_video:
\* no HandBrake run and no notification.
C17_DiscardedOrSkipped ==
    /\ [][(/\ Takes("created")
            /\ (Head(queue).is_directory
                  \/ ~IsSupported(Head(queue).path)))
               => NothingStarted]_vars
    /\ [](\A p \in processing : IsSupported(p))
    /\ [](\A t \in Threads :
            (pc[t] # "idle" /\ HasMarker(cur[t]))
               => /\ pc[t] \in {"settle", "pipeline", "finally"}
                  /\ notes[t] = {}
                  /\ transcodes[cur[t]] = 0)

\* The file HandBrake wrote for Clip is in the registry, its handler about
\* to enter compress_video.
C17_Witness ==
    \E t \in Threads :
        /\ cur[t] = ArtifactPath(Clip)
        /\ pc[t] = "pipeline"
        /\ cur[t] \in processing

HandlerOrder ==
    {<<"idle", "settle">>, <<"settle", "pipeline">>,
     <<"pipeline", "running">>, <<"pipeline", "finally">>,
     <<"running", "trash">>, <<"running", "finally">>,
     <<"trash", "finally">>, <<"finally", "idle">>}

\* C19: one handling of a creation notification for p goes through its
\* steps in this order: the settle delay ends and p is inserted into the
\* registry; compress_video makes its checks and starts HandBrake at most
\* once, then move_to_trash runs at most once; then p is removed from the
\* registry.  HandBrake is started only by a handler past the settle delay
\* and the insertion, and a handler removes p only after compress_video has
\* returned.
C19_HandlerOrder ==
    /\ [][\A t \in Threads :
            pc'[t] # pc[t]
               => /\ <<pc[t], pc'[t]>> \in HandlerOrder
                  /\ pc[t] = "settle" => cur[t] \in processing'
                  /\ pc'[t] = "idle" => cur[t] \notin processing'
                  /\ pc[t] # "idle" /\ pc'[t] # "idle" => cur'[t] = cur[t]
                  /\ \A u \in Threads \ {t} : pc'[u] = pc[u]]_vars
    /\ [][processing' # processing
            => \E t \in Threads :
                 \/ /\ pc[t] = "settle" /\ pc'[t] = "pipeline"
                    /\ processing' = processing \cup {cur[t]}
                 \/ /\ pc[t] = "finally" /\ pc'[t] = "idle"
                    /\ processing' = processing \ {cur[t]}]_vars
    /\ [][\A p \in Files :
            transcodes'[p] # transcodes[p]
               => /\ transcodes'[p] = transcodes[p] + 1
                  /\ \E t \in Threads :
                       /\ cur[t] = p
                       /\ pc[t] = "pipeline" /\ pc'[t] = "running"]_vars
    /\ [][\A t \in Threads :
            disposal'[t] \notin {disposal[t], "none"}
               => pc[t] = "trash" /\ pc'[t] = "finally"]_vars

\* A handling that went through every step: HandBrake ran once, the source
\* was moved to the trash, and the path is still registered, its removal
\* being the step that is left.
C19_Witness ==
    \E t \in Threads :
        /\ pc[t] = "finally"
        /\ disposal[t] = "Disposed"
        /\ transcodes[cur[t]] = 1
        /\ cur[t] \in processing

\* The failures an attempt can meet: HandBrake fails, times out or cannot be
\* run, the statistics fail, the move to the trash fails.
Failed(t) ==
    \/ rc[t] \in {"nonzero", "timeout", "raised"}
    \/ rc[t] = "zero" /\ "Error" \in notes[t]
    \/ disposal[t] \in {"PermissionDenied", "OtherError"}

HandlerStep == \E t \in Threads : pc'[t] # pc[t]

\* C21: the program removes a source file only by the move to the trash,
\* and only while the output derived from it is on disk: a source that a
\* step of the program makes disappear is the path of a handler in
\* move_to_trash whose outcome is Disposed, and its output exists before and
\* after that step; the program removes no output; so a source that an
\* attempt has disposed of has its output in place.
C21_SourceTrashedOnlyWithArtifact ==
    /\ [][\A p \in Sources :
            (HandlerStep /\ Exists(p) /\ fs'[p] = Absent)
               => /\ \E t \in Threads :
                       /\ cur[t] = p
                       /\ pc[t] = "trash" /\ pc'[t] = "finally"
                       /\ disposal'[t] = "Disposed"
                  /\ Exists(ArtifactPath(p))
                  /\ fs'[ArtifactPath(p)] # Absent]_vars
    /\ [][\A a \in Files \ Sources :
            Exists(a) => fs'[a] # Absent]_vars
    /\ [](\A t \in Threads :
            disposal[t] = "Disposed"
               => ~Exists(cur[t]) /\ Exists(ArtifactPath(cur[t])))

\* Clip has been moved to the trash by its handler and its output is there.
C21_Witness ==
    /\ ~Exists(Clip)
    /\ Exists(ArtifactPath(Clip))
    /\ \E t \in Threads : cur[t] = Clip /\ disposal[t] = "Disposed"

====
